---- MODULE Spec2Model ----
(***************************************************************************)
(* A model of the joren.co static-site configuration:                      *)
(*   - the Eleventy configuration function (.eleventy.js): the 'posts'     *)
(*     collection, the async 'image' shortcode, the layout aliases;        *)
(*   - the PostCSS configuration function (postcss.config.js).             *)
(* JavaScript values of different types are kept apart by a type tag, so   *)
(* that strict equality (===) is equality of tagged values.                *)
(***************************************************************************)
EXTENDS Integers, Sequences, FiniteSets, TLC

VARIABLES
    all,            \* the generator's content items, in file-discovery order
    posts,          \* the value of the 'posts' collection, once computed
    computed,       \* how many times the collection callback has run
    postsError,     \* the error the collection callback threw, or "none"
    cssLoads,       \* the PostCSS configurations produced so far: [env, plugins]
    phase,          \* the build: "start", "building", "succeeded", "failed"
    exitCode,       \* the exit code of the build command
    eleventyConfig, \* what the configuration function has registered
    pages,          \* the pages of the build: [status, layout, template]
    inv             \* the image shortcode invocations

vars == <<all, posts, computed, postsError, cssLoads, phase, exitCode, eleventyConfig, pages, inv>>

(* Bounds of the model. *)
MaxItems == 3
MaxComputes == 2
MaxLoads == 3
MaxPages == 2
MaxInvocations == 2

Range(s) == {s[k] : k \in DOMAIN s}

(***************************************************************************)
(* JavaScript values                                                       *)
(***************************************************************************)
JsTrue == <<"boolean", "true">>
JsFalse == <<"boolean", "false">>
JsNull == <<"null", "null">>
JsUndefined == <<"undefined", "undefined">>
JsString(s) == <<"string", s>>
JsNumber(n) == <<"number", n>>

\* a !== b
StrictNotEquals(a, b) == a # b

\* !a : the values JavaScript converts to false
Falsy(a) == a \in {JsFalse, JsNull, JsUndefined, JsString(""), JsNumber("0")}

(***************************************************************************)
(* The 'posts' collection                                                  *)
(***************************************************************************)
\* A path is its segments (the last one without extension) and its extension.
Path(segs, ext) == [segs |-> segs, ext |-> ext]

PostsGlob == [dir |-> "_posts", ext |-> "md"]

\* '_posts/*.md': one segment under _posts (* does not cross a separator), .md
MatchesGlob(path, glob) ==
    /\ Len(path.segs) = 2
    /\ path.segs[1] = glob.dir
    /\ path.ext = glob.ext

\* collectionApi.getFilteredByGlob(glob): the matching items, in the order of all
GetFilteredByGlob(items, glob) ==
    SelectSeq(items, LAMBDA item : MatchesGlob(item.inputPath, glob))

\* post.data.hidden : undefined when the front matter has no such key
DataHidden(post) ==
    IF "hidden" \in DOMAIN post.data THEN post.data.hidden ELSE JsUndefined

\* reading post.data.hidden throws a TypeError only on an item without data
FilterThrows(post) == "data" \notin DOMAIN post

\* a != b for b the boolean true: a is converted to a number and compared with 1
LooseNotEqualsTrue(a) == a \notin {JsTrue, JsNumber("1"), JsString("1")}

\* a filter written with != instead of !==
LooselyNotHidden(post) == LooseNotEqualsTrue(DataHidden(post))

\* a filter that drops every item with a truthy hidden value
TruthyHiddenFilter(post) == Falsy(DataHidden(post))

\* post => post.data.hidden !== true
NotHidden(post) == StrictNotEquals(DataHidden(post), JsTrue)

Reverse(s) == [k \in 1..Len(s) |-> s[Len(s) + 1 - k]]

\* a collection callback that returns the newest post first
PostsCollectionReversed(items) ==
    Reverse(SelectSeq(GetFilteredByGlob(items, PostsGlob), NotHidden))

\* the callback given to addCollection('posts', ...)
PostsCollection(items) ==
    SelectSeq(GetFilteredByGlob(items, PostsGlob), NotHidden)

Paths ==
    { Path(<<"_posts", "a">>, "md"),
      Path(<<"_posts", "b">>, "md"),
      Path(<<"_posts", "c">>, "njk"),
      Path(<<"_posts", "drafts", "d">>, "md"),
      Path(<<"index">>, "md") }

HiddenValues == {JsTrue, JsFalse, JsString("true"), JsNumber("1"), JsNull}

FrontMatters ==
    [layout : {"post"}, hidden : HiddenValues] \cup [layout : {"post"}]

Items == [inputPath : Paths, data : FrontMatters]

\* the content items of a site: at most MaxItems, no two with the same path
Sites ==
    { s \in UNION {[1..n -> Items] : n \in 0..MaxItems} :
        \A j, k \in DOMAIN s : j # k => s[j].inputPath # s[k].inputPath }

\* a callback that rewrites the flag of the posts it looks at as a boolean
ItemsAfterNormalising(items) ==
    [k \in DOMAIN items |->
        IF MatchesGlob(items[k].inputPath, PostsGlob)
        THEN [items[k] EXCEPT !.data =
                [layout |-> items[k].data.layout,
                 hidden |-> IF DataHidden(items[k]) = JsTrue THEN JsTrue ELSE JsFalse]]
        ELSE items[k]]

\* the content items after the callback has run: it assigns to nothing
ItemsAfterCallback(items) == items

\* The generator calls the collection callback (once per build of the site).
ComputePosts ==
    /\ computed < MaxComputes
    /\ LET found == GetFilteredByGlob(all, PostsGlob)
       IN  IF \E k \in DOMAIN found : FilterThrows(found[k])
           THEN posts' = posts /\ postsError' = "TypeError"
           ELSE posts' = PostsCollection(all) /\ postsError' = "none"
    /\ all' = ItemsAfterCallback(all)
    /\ computed' = computed + 1
    /\ UNCHANGED <<cssLoads, phase, exitCode, eleventyConfig, pages, inv>>

(***************************************************************************)
(* The PostCSS configuration                                               *)
(***************************************************************************)
Plugin(name) == [kind |-> "plugin", name |-> name, options |-> "none"]
Cssnano == [kind |-> "plugin", name |-> "cssnano", options |-> "preset: default"]
\* the literal false, which the loader of the configuration skips
NoPlugin == [kind |-> "false", name |-> "false", options |-> "none"]

Production == JsString("production")

\* a configuration that minifies whenever env is set
PostcssConfigAnyEnv(ctx) ==
    [plugins |->
        << Plugin("postcss-import"),
           Plugin("tailwindcss"),
           Plugin("postcss-nested"),
           IF ~Falsy(ctx.env) THEN Cssnano ELSE NoPlugin >>]

\* a configuration that puts the minifier first
PostcssConfigNanoFirst(ctx) ==
    [plugins |->
        << IF ctx.env = Production THEN Cssnano ELSE NoPlugin,
           Plugin("postcss-import"),
           Plugin("tailwindcss"),
           Plugin("postcss-nested") >>]

\* module.exports = ({ env }) => ({ plugins: [...] })
PostcssConfig(ctx) ==
    [plugins |->
        << Plugin("postcss-import"),
           Plugin("tailwindcss"),
           Plugin("postcss-nested"),
           IF ctx.env = Production THEN Cssnano ELSE NoPlugin >>]

Envs ==
    { JsUndefined, Production, JsString("development"), JsString("Production"),
      JsString("prod"), JsString("") }

\* The CSS tool loads the configuration with the env of its process.
LoadPostcssConfig ==
    /\ Len(cssLoads) < MaxLoads
    /\ \E e \in Envs :
         cssLoads' = Append(cssLoads, [env |-> e, plugins |-> PostcssConfig([env |-> e]).plugins])
    /\ UNCHANGED <<all, posts, computed, postsError, phase, exitCode, eleventyConfig, pages, inv>>

(***************************************************************************)
(* The Eleventy configuration function                                     *)
(***************************************************************************)
EmptyConfig ==
    [collections |-> {}, nunjucksAsyncShortcodes |-> {}, layoutAliases |-> {},
     plugins |-> {}, options |-> {}]

\* addLayoutAlias(from, to): the alias table is a map, a later entry replaces
AddLayoutAlias(aliases, from, to) ==
    {a \in aliases : a[1] # from} \cup {<<from, to>>}

\* a configuration function whose second alias line kept the first one's name
ConfigFunctionSameName(cfg) ==
    [collections |-> cfg.collections \cup {"posts"},
     nunjucksAsyncShortcodes |-> cfg.nunjucksAsyncShortcodes \cup {"image"},
     layoutAliases |->
        AddLayoutAlias(
            AddLayoutAlias(cfg.layoutAliases, "default", "layouts/default.njk"),
            "default", "layouts/post.njk"),
     plugins |-> cfg.plugins \cup {"syntaxHighlight"},
     options |-> {<<"markdownTemplateEngine", "njk">>}]

\* a configuration function that does not register the shortcode
ConfigFunctionNoShortcode(cfg) ==
    [collections |-> cfg.collections \cup {"posts"},
     nunjucksAsyncShortcodes |-> cfg.nunjucksAsyncShortcodes,
     layoutAliases |->
        AddLayoutAlias(
            AddLayoutAlias(cfg.layoutAliases, "default", "layouts/default.njk"),
            "post", "layouts/post.njk"),
     plugins |-> cfg.plugins \cup {"syntaxHighlight"},
     options |-> {<<"markdownTemplateEngine", "njk">>}]

\* module.exports = function(eleventyConfig) { ... }
ConfigFunction(cfg) ==
    [collections |-> cfg.collections \cup {"posts"},
     nunjucksAsyncShortcodes |-> cfg.nunjucksAsyncShortcodes \cup {"image"},
     layoutAliases |->
        AddLayoutAlias(
            AddLayoutAlias(cfg.layoutAliases, "default", "layouts/default.njk"),
            "post", "layouts/post.njk"),
     plugins |-> cfg.plugins \cup {"syntaxHighlight"},
     options |-> {<<"markdownTemplateEngine", "njk">>}]

\* the targets the alias table gives a layout name
Targets(aliases, name) == {a[2] : a \in {b \in aliases : b[1] = name}}

\* the template a front-matter layout resolves to: its alias, or itself
ResolveLayout(aliases, name) ==
    IF Targets(aliases, name) = {} THEN name
    ELSE CHOOSE t \in Targets(aliases, name) : TRUE

\* the layout a page's front matter names: the first page is a plain page,
\* the others are posts (layout: post)
FrontMatterLayout(p) == IF p = 1 THEN "default" ELSE "post"

(***************************************************************************)
(* The image shortcode                                                     *)
(***************************************************************************)
Sources == {"./img/flex-grow-9999-hack/before.png", "./img/missing.png"}
\* the source files that exist on disk, unchanged during a build
ExistingSources == {"./img/flex-grow-9999-hack/before.png"}
Alts == {"A sketch of how the result of the code would look.", "A sketch of how the result of the code would look with the flex-grow 9999 hack applied."}
SizesValues == {"100vw", "50vw"}

NoExtra == [given |-> FALSE, widths |-> <<>>, formats |-> <<>>]
\* { widths: [null], formats: ["png"] }, with null written 0
ExtraOptions == [given |-> TRUE, widths |-> <<0>>, formats |-> <<"png">>]

\* the argument lists the templates call the shortcode with: a plain call, and
\* the calls that differ from it in one argument
PlainCall ==
    [src |-> "./img/flex-grow-9999-hack/before.png", alt |-> "A sketch of how the result of the code would look.", sizes |-> "100vw", extra |-> NoExtra]

Calls ==
    { c \in [src : Sources, alt : Alts, sizes : SizesValues, extra : {NoExtra, ExtraOptions}] :
        Cardinality({f \in {"src", "alt", "sizes", "extra"} : c[f] # PlainCall[f]}) <= 1 }

NoCall == [src |-> "", alt |-> "", sizes |-> "", extra |-> NoExtra]
NoOptions == [widths |-> <<>>, outputDir |-> ""]
NoRequest == [src |-> "", options |-> NoOptions]
NoMetadata == [source |-> "", widths |-> <<>>, outputDir |-> ""]
NoResult == [status |-> "none", metadata |-> NoMetadata, error |-> "none"]
NoAttributes == [alt |-> "", sizes |-> ""]
NoMarkup == [element |-> "none", metadata |-> NoMetadata, attributes |-> NoAttributes]

Idle ==
    [pc |-> "idle", page |-> 0, call |-> NoCall, request |-> NoRequest,
     result |-> NoResult, imageCalls |-> 0, htmlCalls |-> 0,
     markup |-> NoMarkup, thrown |-> "none"]

\* Image(src, options): the transformation is requested and is pending
ImageCall(r, src, options) ==
    [r EXCEPT !.request = [src |-> src, options |-> options],
              !.result = [NoResult EXCEPT !.status = "pending"],
              !.imageCalls = @ + 1]

\* what the library resolves a request with: the variants it wrote
ImageMetadata(request) ==
    [source |-> request.src, widths |-> request.options.widths,
     outputDir |-> request.options.outputDir]

\* Image.generateHTML(metadata, attributes)
GenerateHTML(metadata, attributes) ==
    [element |-> "picture", metadata |-> metadata, attributes |-> attributes]

\* a shortcode that lets the caller's options replace its own
ImageShortcodeCallMerging(r, call) ==
    [ImageCall(r, call.src,
        [widths |-> IF call.extra.given THEN call.extra.widths
                    ELSE <<400, 800, 1000, 1200, 1450>>,
         outputDir |-> "./_site/img/"])
     EXCEPT !.pc = "awaiting", !.call = call]

\* imageShortcode(src, alt, sizes), up to the await: a fourth argument has no
\* parameter to bind to
ImageShortcodeCall(r, call) ==
    [ImageCall(r, call.src,
        [widths |-> <<400, 800, 1000, 1200, 1450>>, outputDir |-> "./_site/img/"])
     EXCEPT !.pc = "awaiting", !.call = call]

\* a shortcode that does not await the transformation
NotAwaited(r) == r.result.status \in {"pending", "resolved", "rejected"}

\* await: the function continues once the promise of Image() is settled
AwaitSettled(r) == r.result.status \in {"resolved", "rejected"}

\* a shortcode that numbers its images with a counter shared by all invocations
ImageShortcodeReturnNumbered(r) ==
    LET n == Cardinality({i \in DOMAIN inv : inv[i].pc = "returned"})
        imageAttributes == [alt |-> r.call.alt, sizes |-> r.call.sizes, id |-> n]
    IN  [r EXCEPT !.pc = "returned", !.htmlCalls = @ + 1,
                  !.markup = GenerateHTML(r.result.metadata, imageAttributes)]

\* a shortcode that also asks for lazy loading and asynchronous decoding
ImageShortcodeReturnLazy(r) ==
    LET imageAttributes ==
            [alt |-> r.call.alt, sizes |-> r.call.sizes,
             loading |-> "lazy", decoding |-> "async"]
    IN  [r EXCEPT !.pc = "returned", !.htmlCalls = @ + 1,
                  !.markup = GenerateHTML(r.result.metadata, imageAttributes)]

\* the rest of the function when the await yields the metadata
ImageShortcodeReturn(r) ==
    LET imageAttributes == [alt |-> r.call.alt, sizes |-> r.call.sizes]
    IN  [r EXCEPT !.pc = "returned", !.htmlCalls = @ + 1,
                  !.markup = GenerateHTML(r.result.metadata, imageAttributes)]

\* a shortcode that catches the failure and renders the original file
ImageShortcodeResumeCatching(r) ==
    IF r.result.status = "rejected"
    THEN [r EXCEPT !.pc = "returned", !.htmlCalls = @ + 1,
                   !.markup = GenerateHTML(
                        [NoMetadata EXCEPT !.source = r.call.src],
                        [alt |-> r.call.alt, sizes |-> r.call.sizes])]
    ELSE ImageShortcodeReturn(r)

\* a shortcode that tries the transformation again when it fails
ImageShortcodeResumeRetrying(r) ==
    IF r.result.status = "rejected"
    THEN IF r.imageCalls < 2
         THEN ImageCall(r, r.request.src, r.request.options)
         ELSE [r EXCEPT !.pc = "thrown", !.thrown = r.result.error]
    ELSE ImageShortcodeReturn(r)

\* imageShortcode after the await: a rejection is rethrown to the caller
ImageShortcodeResume(r) ==
    IF r.result.status = "rejected"
    THEN [r EXCEPT !.pc = "thrown", !.thrown = r.result.error]
    ELSE ImageShortcodeReturn(r)

(***************************************************************************)
(* The build                                                               *)
(***************************************************************************)
PageIds == 1..MaxPages
InvIds == 1..MaxInvocations

NoPage == [status |-> "queued", layout |-> "none", template |-> "none"]

Running == phase \in {"building", "failed"}

InvocationsOf(p) == {i \in InvIds : inv[i].page = p}

\* The generator runs the configuration function at startup.
Configure ==
    /\ phase = "start"
    /\ eleventyConfig' = ConfigFunction(eleventyConfig)
    /\ phase' = "building"
    /\ UNCHANGED <<all, posts, computed, postsError, cssLoads, exitCode, pages, inv>>

\* The generator starts to render a page through the layout of its front matter.
StartRender(p) ==
    /\ phase = "building"
    /\ pages[p].status = "queued"
    /\ pages' = [pages EXCEPT ![p] =
          [status |-> "rendering", layout |-> FrontMatterLayout(p),
           template |-> ResolveLayout(eleventyConfig.layoutAliases, FrontMatterLayout(p))]]
    /\ UNCHANGED <<all, posts, computed, postsError, cssLoads, phase, exitCode, eleventyConfig, inv>>

\* The template engine meets {% image ... %} in page p and calls the shortcode.
Invoke(i, p) ==
    /\ Running
    /\ "image" \in eleventyConfig.nunjucksAsyncShortcodes
    /\ pages[p].status = "rendering"
    /\ inv[i].pc = "idle"
    /\ \A j \in InvIds : j < i => inv[j].pc # "idle"
    /\ \E call \in Calls :
         inv' = [inv EXCEPT ![i] = ImageShortcodeCall([@ EXCEPT !.page = p], call)]
    /\ UNCHANGED <<all, posts, computed, postsError, cssLoads, phase, exitCode, eleventyConfig, pages>>

\* The image library settles a pending transformation.
ImageSettles(i) ==
    /\ Running
    /\ inv[i].result.status = "pending"
    /\ inv' = [inv EXCEPT ![i].result =
          IF inv[i].request.src \in ExistingSources
          THEN [status |-> "resolved", metadata |-> ImageMetadata(inv[i].request),
                error |-> "none"]
          ELSE [status |-> "rejected", metadata |-> NoMetadata, error |-> "ENOENT"]]
    /\ UNCHANGED <<all, posts, computed, postsError, cssLoads, phase, exitCode, eleventyConfig, pages>>

\* The shortcode continues after its await.
Resume(i) ==
    /\ Running
    /\ inv[i].pc = "awaiting"
    /\ AwaitSettled(inv[i])
    /\ inv' = [inv EXCEPT ![i] = ImageShortcodeResume(@)]
    /\ UNCHANGED <<all, posts, computed, postsError, cssLoads, phase, exitCode, eleventyConfig, pages>>

\* The generator writes a page whose shortcodes have all returned their markup.
WritePage(p) ==
    /\ Running
    /\ pages[p].status = "rendering"
    /\ \A i \in InvocationsOf(p) : inv[i].pc = "returned"
    /\ pages' = [pages EXCEPT ![p].status = "written"]
    /\ UNCHANGED <<all, posts, computed, postsError, cssLoads, phase, exitCode, eleventyConfig, inv>>

\* A shortcode of page p has thrown: the render of the page and the build fail.
RenderError(p) ==
    /\ Running
    /\ pages[p].status = "rendering"
    /\ \E i \in InvocationsOf(p) : inv[i].pc = "thrown"
    /\ pages' = [pages EXCEPT ![p].status = "failed"]
    /\ phase' = "failed"
    /\ exitCode' = 1
    /\ UNCHANGED <<all, posts, computed, postsError, cssLoads, eleventyConfig, inv>>

\* Every page is written: the build command ends with success.
FinishBuild ==
    /\ phase = "building"
    /\ \A p \in PageIds : pages[p].status = "written"
    /\ phase' = "succeeded"
    /\ exitCode' = 0
    /\ UNCHANGED <<all, posts, computed, postsError, cssLoads, eleventyConfig, pages, inv>>

(***************************************************************************)
(* Specifications                                                          *)
(***************************************************************************)
BuildIdle ==
    /\ phase = "start"
    /\ exitCode = -1
    /\ eleventyConfig = EmptyConfig
    /\ pages = [p \in PageIds |-> NoPage]
    /\ inv = [i \in InvIds |-> Idle]

NoContent ==
    /\ all = <<>>
    /\ posts = <<>>
    /\ computed = 0
    /\ postsError = "none"

\* a build of the site
Init ==
    /\ NoContent
    /\ cssLoads = <<>>
    /\ BuildIdle

Next ==
    \/ Configure
    \/ \E p \in PageIds : StartRender(p)
    \/ \E i \in InvIds, p \in PageIds : Invoke(i, p)
    \/ \E i \in InvIds : ImageSettles(i)
    \/ \E i \in InvIds : Resume(i)
    \/ \E p \in PageIds : WritePage(p)
    \/ \E p \in PageIds : RenderError(p)
    \/ FinishBuild

Spec == Init /\ [][Next]_vars

\* the collection callback, on every site within the bounds
InitPosts ==
    /\ all \in Sites
    /\ posts = <<>>
    /\ computed = 0
    /\ postsError = "none"
    /\ cssLoads = <<>>
    /\ BuildIdle

NextPosts == ComputePosts

SpecPosts == InitPosts /\ [][NextPosts]_vars

\* the PostCSS configuration function, on every env within the bounds
InitCss ==
    /\ NoContent
    /\ cssLoads = <<>>
    /\ BuildIdle

NextCss == LoadPostcssConfig

SpecCss == InitCss /\ [][NextCss]_vars

(***************************************************************************)
(* Properties of the 'posts' collection (SpecPosts)                        *)
(***************************************************************************)
HiddenIsTrue(item) ==
    "hidden" \in DOMAIN item.data /\ item.data.hidden = <<"boolean", "true">>

InPostsDirectory(item) ==
    /\ Len(item.inputPath.segs) = 2
    /\ item.inputPath.segs[1] = "_posts"
    /\ item.inputPath.ext = "md"

Occurrences(s, x) == Cardinality({k \in DOMAIN s : s[k] = x})

IndexIn(s, x) == CHOOSE k \in DOMAIN s : s[k] = x

\* C1: once computed, the 'posts' collection holds no item whose hidden
\* attribute is true, holds every other item matching '_posts/*.md' exactly
\* once, and holds nothing else.
C1_PostsAreTheVisibleMatches ==
    computed > 0 =>
        /\ \A k \in DOMAIN posts : ~HiddenIsTrue(posts[k])
        /\ \A k \in DOMAIN posts :
              posts[k] \in Range(all) /\ InPostsDirectory(posts[k])
        /\ \A j \in DOMAIN all :
              Occurrences(posts, all[j]) =
                 IF InPostsDirectory(all[j]) /\ ~HiddenIsTrue(all[j]) THEN 1 ELSE 0

\* a site with a hidden post, a post whose hidden value is not the boolean
\* true, and the collection computed
C1_Witness ==
    /\ computed > 0
    /\ \E j \in DOMAIN all : InPostsDirectory(all[j]) /\ HiddenIsTrue(all[j])
    /\ \E j \in DOMAIN all :
          /\ InPostsDirectory(all[j])
          /\ "hidden" \in DOMAIN all[j].data
          /\ all[j].data.hidden = <<"number", "1">>
    /\ Len(posts) >= 1

\* C2: two posts of the collection are in the order in which
\* getFilteredByGlob returned them.
C2_PostsKeepDiscoveryOrder ==
    computed > 0 =>
        LET found == GetFilteredByGlob(all, PostsGlob)
        IN  \A a, b \in DOMAIN posts :
              /\ posts[a] \in Range(found)
              /\ posts[b] \in Range(found)
              /\ (a < b) <=> (IndexIn(found, posts[a]) < IndexIn(found, posts[b]))

\* two posts are kept and an item of the site is left out
C2_Witness ==
    /\ computed > 0
    /\ Len(posts) >= 2
    /\ Len(posts) < Len(all)

\* C11: the callback never throws, and every item matching '_posts/*.md'
\* whose hidden attribute is absent, or is any value other than the boolean
\* true, is in the collection.
C11_MalformedHiddenIsNotHidden ==
    /\ postsError = "none"
    /\ computed > 0 =>
          \A j \in DOMAIN all :
              (/\ InPostsDirectory(all[j])
               /\ \/ "hidden" \notin DOMAIN all[j].data
                  \/ all[j].data.hidden \in
                        { <<"string", "true">>, <<"number", "1">>, <<"null", "null">>,
                          <<"boolean", "false">> })
              => all[j] \in Range(posts)

\* a site with a post without the attribute, a post with the string 'true'
\* and a post with the number 1, all three in the computed collection
C11_Witness ==
    /\ computed > 0
    /\ \E j \in DOMAIN all :
          InPostsDirectory(all[j]) /\ "hidden" \notin DOMAIN all[j].data
    /\ \E j \in DOMAIN all :
          /\ InPostsDirectory(all[j])
          /\ "hidden" \in DOMAIN all[j].data
          /\ all[j].data.hidden \in {<<"string", "true">>, <<"number", "1">>, <<"null", "null">>}
    /\ Len(posts) = 2

\* C15: a run of the callback leaves the content items and their front
\* matter as they were, a second run on the same items gives the same list,
\* and so does the filter applied to the list it produced.
C15_FilterHasNoSideEffects ==
    /\ [][computed' > computed => all' = all]_vars
    /\ [][(computed > 0 /\ computed' > computed) => posts' = posts]_vars
    /\ [](computed > 0 => PostsCollection(posts) = posts)

\* the callback has run twice on a site with a hidden post and a kept post
\* whose front matter has no hidden attribute
C15_Witness ==
    /\ computed = 2
    /\ Len(all) = 3
    /\ Len(posts) = 1
    /\ \E j \in DOMAIN all : InPostsDirectory(all[j]) /\ HiddenIsTrue(all[j])
    /\ \E k \in DOMAIN posts : "hidden" \notin DOMAIN posts[k].data

(***************************************************************************)
(* Properties of the image shortcode and the build (Spec)                  *)
(***************************************************************************)
\* C3: markup is generated only after the transformation of the same
\* invocation has resolved, and from the metadata it resolved with.
C3_MarkupAfterTransformation ==
    /\ [](\A i \in InvIds :
            (inv[i].htmlCalls > 0 \/ inv[i].pc = "returned" \/ inv[i].markup # NoMarkup) =>
                /\ inv[i].result.status = "resolved"
                /\ inv[i].imageCalls > 0
                /\ inv[i].markup.metadata = inv[i].result.metadata
                /\ inv[i].markup.metadata.source = inv[i].call.src)
    /\ [][\A i \in InvIds :
            (inv'[i].htmlCalls > inv[i].htmlCalls \/ inv'[i].markup # inv[i].markup) =>
                inv[i].result.status = "resolved" /\ inv'[i].result = inv[i].result]_vars

\* an invocation has returned its markup
C3_Witness ==
    \E i \in InvIds :
        /\ inv[i].pc = "returned"
        /\ inv[i].htmlCalls = 1
        /\ inv[i].markup.element = "picture"

\* C4: a failed transformation was attempted once, the invocation can only
\* end by throwing that same error, and no markup is generated for it.
C4_FailureIsRethrownOnce ==
    \A i \in InvIds :
        /\ inv[i].imageCalls <= 1
        /\ inv[i].result.status = "rejected" =>
              /\ inv[i].imageCalls = 1
              /\ inv[i].htmlCalls = 0
              /\ inv[i].markup = NoMarkup
              /\ inv[i].pc \in {"awaiting", "thrown"}
        /\ inv[i].pc = "thrown" =>
              /\ inv[i].result.status = "rejected"
              /\ inv[i].thrown = inv[i].result.error

\* an invocation on a missing source has thrown
C4_Witness ==
    \E i \in InvIds :
        /\ inv[i].pc = "thrown"
        /\ inv[i].thrown = "ENOENT"
        /\ inv[i].call.src \notin ExistingSources

TransformationFailed(i) == inv[i].result.status = "rejected"

\* C5: the build never succeeds (exit code 0) when a transformation of one of
\* its shortcode invocations has failed, the page of such an invocation is
\* never written, and a failed build has a non-zero exit code.
C5_FailedImageFailsBuild ==
    /\ (phase = "succeeded" \/ exitCode = 0) =>
          \A i \in InvIds : ~TransformationFailed(i)
    /\ \A i \in InvIds :
          TransformationFailed(i) => pages[inv[i].page].status # "written"
    /\ phase = "failed" =>
          /\ exitCode # 0
          /\ \E i \in InvIds : inv[i].pc = "thrown"

\* the build has failed on an invocation that threw
C5_Witness ==
    /\ phase = "failed"
    /\ exitCode = 1
    /\ \E i \in InvIds :
          /\ inv[i].pc = "thrown"
          /\ pages[inv[i].page].status = "failed"

\* C6: every invocation requests the widths 400, 800, 1000, 1200, 1450 and the
\* output directory './_site/img/' and nothing else, with or without a
\* fourth argument.
C6_FixedRequestOptions ==
    \A i \in InvIds :
        inv[i].pc # "idle" =>
            /\ inv[i].request.options =
                  [widths |-> <<400, 800, 1000, 1200, 1450>>, outputDir |-> "./_site/img/"]
            /\ inv[i].request.src = inv[i].call.src

\* an invocation with the extra options object has made its request
C6_Witness ==
    \E i \in InvIds :
        /\ inv[i].call.extra = ExtraOptions
        /\ inv[i].result.status = "resolved"

SameArguments(i, j) ==
    /\ inv[i].call.src = inv[j].call.src
    /\ inv[i].call.alt = inv[j].call.alt
    /\ inv[i].call.sizes = inv[j].call.sizes

\* C7: two invocations with the same src, alt and sizes that have returned
\* have returned the same markup.
C7_SameArgumentsSameMarkup ==
    \A i, j \in InvIds :
        (inv[i].pc = "returned" /\ inv[j].pc = "returned" /\ SameArguments(i, j)) =>
            inv[i].markup = inv[j].markup

\* two invocations with the same arguments have both returned
C7_Witness ==
    \E i, j \in InvIds :
        /\ i # j
        /\ inv[i].pc = "returned"
        /\ inv[j].pc = "returned"
        /\ SameArguments(i, j)

Completed(i) == inv[i].pc \in {"returned", "thrown"}

TransformationPending(i) == inv[i].result.status = "pending"

TransformationCompleted(i) == inv[i].result.status \in {"resolved", "rejected"}

C13_InvocationsAreIndependent ==
    \A i \in InvIds :
        inv[i].pc # "idle" =>
            /\ inv[i].request =
                  [src |-> inv[i].call.src,
                   options |-> [widths |-> <<400, 800, 1000, 1200, 1450>>,
                                outputDir |-> "./_site/img/"]]
            /\ inv[i].pc = "awaiting" =>
                  inv[i].markup = NoMarkup /\ inv[i].thrown = "none"
            /\ inv[i].pc = "returned" =>
                  /\ inv[i].markup =
                        GenerateHTML(inv[i].result.metadata,
                            [alt |-> inv[i].call.alt, sizes |-> inv[i].call.sizes])
                  /\ inv[i].thrown = "none"
            /\ inv[i].pc = "thrown" =>
                  inv[i].markup = NoMarkup /\ inv[i].thrown = inv[i].result.error

\* two invocations with different arguments overlapped: one has returned its
\* markup while the other, started before it, still waits or has failed
C13_Witness ==
    \E i, j \in InvIds :
        /\ i < j
        /\ inv[i].call # inv[j].call
        /\ inv[j].pc = "returned"
        /\ \/ inv[i].pc = "awaiting"
           \/ inv[i].pc = "thrown"

Registered ==
    /\ "posts" \in eleventyConfig.collections
    /\ "image" \in eleventyConfig.nunjucksAsyncShortcodes

\* C14: the collection and the shortcode are registered from the moment the
\* configuration function has run; before that no page is rendered and the
\* shortcode is not invoked; every invocation belongs to a page whose render
\* has started and makes exactly one transformation call.
C14_RegisteredBeforeRendering ==
    /\ phase # "start" => Registered
    /\ phase = "start" =>
          /\ \A p \in PageIds : pages[p].status = "queued"
          /\ \A i \in InvIds : inv[i].pc = "idle"
    /\ \A i \in InvIds :
          inv[i].pc # "idle" =>
              /\ Registered
              /\ inv[i].page \in PageIds
              /\ pages[inv[i].page].status # "queued"
              /\ inv[i].imageCalls = 1

\* two image references of one page have been rendered, one call each
C14_Witness ==
    \E i, j \in InvIds :
        /\ i # j
        /\ inv[i].page = inv[j].page
        /\ inv[i].pc = "returned" /\ inv[i].imageCalls = 1
        /\ inv[j].pc = "returned" /\ inv[j].imageCalls = 1
        /\ Registered

\* C16: the attributes given to generateHTML are exactly the alt and sizes
\* arguments, and two invocations with the same src have issued the same
\* transformation request, whatever their alt and sizes.
C16_AltAndSizesOnlyInMarkup ==
    /\ \A i \in InvIds :
          inv[i].htmlCalls > 0 =>
              inv[i].markup.attributes =
                  [alt |-> inv[i].call.alt, sizes |-> inv[i].call.sizes]
    /\ \A i, j \in InvIds :
          (inv[i].pc # "idle" /\ inv[j].pc # "idle" /\ inv[i].call.src = inv[j].call.src) =>
              inv[i].request = inv[j].request

\* two invocations with one src, one with another alt and one with another
\* sizes, have both returned
C16_Witness ==
    \E i, j \in InvIds :
        /\ inv[i].call.src = inv[j].call.src
        /\ inv[i].call.alt # inv[j].call.alt
        /\ inv[i].call.sizes # inv[j].call.sizes
        /\ inv[i].pc = "returned"
        /\ inv[j].pc = "returned"

\* C8: once the configuration function has run, the alias table is, in every
\* later state, exactly 'default' -> 'layouts/default.njk' and 'post' ->
\* 'layouts/post.njk' (one target each, never changed), and every page is
\* rendered through the target of the layout name in its front matter.
C8_LayoutAliases ==
    phase # "start" =>
        /\ eleventyConfig.layoutAliases =
              {<<"default", "layouts/default.njk">>, <<"post", "layouts/post.njk">>}
        /\ \A n \in {"default", "post"} :
              Cardinality({a \in eleventyConfig.layoutAliases : a[1] = n}) = 1
        /\ \A p \in PageIds :
              /\ pages[p].layout = "default" => pages[p].template = "layouts/default.njk"
              /\ pages[p].layout = "post" => pages[p].template = "layouts/post.njk"

\* a page was rendered through each of the two layouts
C8_Witness ==
    \E p, q \in PageIds :
        /\ pages[p].layout = "post" /\ pages[p].template = "layouts/post.njk"
        /\ pages[q].layout = "default" /\ pages[q].template = "layouts/default.njk"

(***************************************************************************)
(* Properties of the PostCSS configuration (SpecCss)                       *)
(***************************************************************************)
HasStage(plugins, name) ==
    \E k \in DOMAIN plugins : plugins[k].kind = "plugin" /\ plugins[k].name = name

StagesWithout(plugins, name) ==
    SelectSeq(plugins, LAMBDA p : p.kind = "plugin" /\ p.name # name)

\* the names of the stages that run: the loader skips a false entry
StageNames(plugins) ==
    LET st == SelectSeq(plugins, LAMBDA p : p.kind = "plugin")
    IN  [k \in DOMAIN st |-> st[k].name]

\* C9: a loaded configuration has the cssnano stage exactly when env is the
\* string 'production'; in every case its other stages are postcss-import,
\* tailwindcss and postcss-nested.
C9_MinifyOnlyInProduction ==
    \A k \in DOMAIN cssLoads :
        /\ HasStage(cssLoads[k].plugins, "cssnano") <=>
              cssLoads[k].env = <<"string", "production">>
        /\ StageNames(StagesWithout(cssLoads[k].plugins, "cssnano")) =
              <<"postcss-import", "tailwindcss", "postcss-nested">>

\* configurations were loaded for production, for an unset env and for
\* another value
C9_Witness ==
    /\ \E k \in DOMAIN cssLoads :
          cssLoads[k].env = Production /\ HasStage(cssLoads[k].plugins, "cssnano")
    /\ \E k \in DOMAIN cssLoads :
          cssLoads[k].env = JsUndefined /\ ~HasStage(cssLoads[k].plugins, "cssnano")
    /\ \E k \in DOMAIN cssLoads :
          cssLoads[k].env = JsString("Production") /\ ~HasStage(cssLoads[k].plugins, "cssnano")

StageRank(name) ==
    CASE name = "postcss-import" -> 1
      [] name = "tailwindcss" -> 2
      [] name = "postcss-nested" -> 3
      [] name = "cssnano" -> 4
      [] OTHER -> 0

\* C10: in every loaded configuration the stages run in the order import,
\* tailwindcss, nested, then cssnano when present, and two loads with the
\* same env have the same plugin list.
C10_FixedStageOrder ==
    /\ \A k \in DOMAIN cssLoads :
          LET names == StageNames(cssLoads[k].plugins)
          IN  /\ \A a, b \in DOMAIN names :
                    a < b => StageRank(names[a]) < StageRank(names[b])
              /\ \A a \in DOMAIN names : StageRank(names[a]) > 0
              /\ Len(names) >= 3
    /\ \A j, k \in DOMAIN cssLoads :
          cssLoads[j].env = cssLoads[k].env => cssLoads[j].plugins = cssLoads[k].plugins

\* production was loaded twice, and another env once
C10_Witness ==
    \E j, k, l \in DOMAIN cssLoads :
        /\ j # k
        /\ cssLoads[j].env = Production
        /\ cssLoads[k].env = Production
        /\ Len(StageNames(cssLoads[j].plugins)) = 4
        /\ cssLoads[l].env # Production

====
